---- MODULE Spec2Model ----
(***************************************************************************)
(* Blackjack session (game/api.py, game/models/player.py): the shoe, the   *)
(* two hands, the bankroll and the bet/hit/stand/reset handlers.           *)
(***************************************************************************)
EXTENDS Integers, FiniteSets, Sequences, TLC

VARIABLES
    deck,               \* Deck.cards: rank -> remaining count
    discarded,          \* BlackjackWrapper.discarded: rank -> count
    player,             \* BlackjackWrapper.player.hand: rank -> count
    dealer,             \* BlackjackWrapper.dealer.hand: rank -> count
    remaining_cash,     \* BlackjackWrapper.remaining_cash
    max_attained_cash,  \* BlackjackWrapper.max_attained_cash
    player_bet_percent, \* BlackjackWrapper.player_bet_percent, in units of 1/BetDen
    pc,                 \* position of the caller in the round
    reward,             \* ActionOutcome.reward of the last step
    terminated,         \* ActionOutcome.terminated of the last step
    rounds,             \* number of reset() calls made so far
    hits,               \* number of card_step(True) calls of this round
    new_session,        \* TRUE iff the last step returned a new BlackjackWrapper
    dealt,              \* the cards drawn by the last step, if it was bet_step
    hand,               \* hand under evaluation (hand valuation specification)
    value               \* result of get_hand_value(hand), -1 before evaluation

vars == <<deck, discarded, player, dealer, remaining_cash, max_attained_cash,
          player_bet_percent, pc, reward, terminated, rounds, hits, new_session,
          dealt, hand, value>>

----------------------------------------------------------------------------
(* Bounds of the model *)

\* reset() calls explored in one behaviour
MaxRounds == 4
\* card_step(True) calls explored in one round
MaxHits == 1
\* bet_step is explored while remaining_cash <= MaxCash
MaxCash == 3
\* constructor arguments of the session (api.py:17)
initial_cash == 2
deck_nums == 1
\* cards in a hand handed to get_hand_value in the hand valuation specification
MaxHandCards == 4

----------------------------------------------------------------------------
(* Card ranks (game/models/constant.py) *)

ace == 1
jack == 11
queen == 12
king == 13
Card == 1..13
SuitsPerDeck == 4

\* the bet_percent arguments explored, in halves: 0.0, 0.5 and 1.0; for these
\* remaining_cash * bet_percent is exact in floating point
Bets == {0, 1, 2}
BetDen == Cardinality(Bets) - 1

EmptyHand == [c \in Card |-> 0]

RECURSIVE SumUpTo(_, _)
SumUpTo(h, n) == IF n = 0 THEN 0 ELSE h[n] + SumUpTo(h, n - 1)
\* sum(hand.values())
TotalCards(h) == SumUpTo(h, 13)
\* len(hand): the number of keys of the Counter
HandLen(h) == Cardinality({c \in Card : h[c] > 0})

\* variant of Add: the count is set to 1 instead of incremented
AddOverwrite(h, c) == [h EXCEPT ![c] = 1]
Add(h, c) == [h EXCEPT ![c] = @ + 1]
Take(h, c) == [h EXCEPT ![c] = @ - 1]
\* variant of Plus: a rank of g replaces the count of h instead of adding to it
PlusOverwrite(h, g) == [c \in Card |-> IF g[c] > 0 THEN g[c] ELSE h[c]]

Plus(h, g) == [c \in Card |-> h[c] + g[c]]

----------------------------------------------------------------------------
(* Player.get_hand_value (game/models/player.py) *)

\* card * count, with jack, queen and king counted as 10
CardPoints(c) == IF c \in {jack, queen, king} THEN 10 ELSE c

RECURSIVE PointsUpTo(_, _)
PointsUpTo(h, n) ==
    IF n = 0 THEN 0 ELSE CardPoints(n) * h[n] + PointsUpTo(h, n - 1)
\* the loop over hand.items() (player.py:45-49 and 58-62)
HandPoints(h) == PointsUpTo(h, 13)

\* variant of PromoteAces: the promotion test written as < 21
RECURSIVE PromoteAcesBelow21(_, _)
PromoteAcesBelow21(hand_value, n) ==
    IF n = 0 THEN hand_value
    ELSE PromoteAcesBelow21(IF hand_value + 10 < 21 THEN hand_value + 10
                            ELSE hand_value, n - 1)

\* variant of PromoteAces: every ace is promoted, without the test
PromoteAcesAll(hand_value, n) == hand_value + 10 * n

\* for i in range(hand[Card.ace]): if hand_value + 10 <= 21: hand_value += 10
RECURSIVE PromoteAces(_, _)
PromoteAces(hand_value, n) ==
    IF n = 0 THEN hand_value
    ELSE PromoteAces(IF hand_value + 10 <= 21 THEN hand_value + 10
                     ELSE hand_value, n - 1)

get_value_with_aces(h) ==
    LET total_cards == TotalCards(h) IN
    IF total_cards = 2 /\ h[ace] = 2 THEN 21
    ELSE IF /\ total_cards = 2
            /\ h[ace] = 1
            /\ (h[jack] = 1 \/ h[queen] = 1 \/ h[king] = 1 \/ h[10] = 1)
         THEN 21
    ELSE PromoteAces(HandPoints(h), h[ace])

get_hand_value(h) ==
    IF h[ace] = 0 THEN HandPoints(h) ELSE get_value_with_aces(h)

----------------------------------------------------------------------------
(* Deck (game/models/deck.py) *)

\* Deck(deck_nums): SuitsPerDeck cards of every rank per deck
NewDeck == [c \in Card |-> SuitsPerDeck * deck_nums]

\* Deck.get_remaining_cards
get_remaining_cards(d) == TotalCards(d)

\* Deck.shuffle and Deck.draw: the shuffle decides which remaining card is
\* drawn next.  The shuffles explored are those that bring a card of the
\* lowest or of the highest rank still in the shoe to the top, so a rank is
\* dealt only when the ranks on one side of it have run out.
Drawable(d) ==
    LET avail == {c \in Card : d[c] > 0} IN
    {c \in avail : (\A b \in avail : b >= c) \/ (\A b \in avail : b <= c)}

----------------------------------------------------------------------------
(* Bankroll arithmetic of bet_step and card_step (game/api.py) *)

\* int(remaining_cash * player_bet_percent)
BetCash(cash, bet) == (cash * bet) \div BetDen

\* variant of loss_cash: twice the bet is lost
loss_cash_doubled(cash, bet) ==
    IF 2 * BetCash(cash, bet) >= 1 THEN 2 * BetCash(cash, bet) ELSE 1

\* loss_cash = max(int(remaining_cash * player_bet_percent), 1)
loss_cash(cash, bet) == IF BetCash(cash, bet) >= 1 THEN BetCash(cash, bet) ELSE 1

\* variant of loss_reward: the reward is -loss_cash also when no cash is left
loss_reward_no_ruin(cash, bet, max_cash) == 0 - loss_cash(cash, bet)

\* -loss_cash if remaining_cash > 0 else -max_attained_cash, remaining_cash
\* being the bankroll after the loss
loss_reward(cash, bet, max_cash) ==
    IF cash - loss_cash(cash, bet) > 0 THEN 0 - loss_cash(cash, bet)
    ELSE 0 - max_cash

\* win_cash = int(remaining_cash * player_bet_percent * 2)
natural_win_cash(cash, bet) == (cash * bet * 2) \div BetDen

\* win_cash = int(remaining_cash * player_bet_percent)
win_cash(cash, bet) == BetCash(cash, bet)

\* variant of Max: the first argument is kept
MaxKeep(a, b) == a

Max(a, b) == IF a >= b THEN a ELSE b

----------------------------------------------------------------------------
(* BlackjackWrapper (game/api.py) *)

\* BlackjackWrapper.__init__: the fields of a freshly constructed session
NewSession ==
    [deck |-> NewDeck, discarded |-> EmptyHand, player |-> EmptyHand,
     dealer |-> EmptyHand, remaining_cash |-> initial_cash,
     max_attained_cash |-> initial_cash, player_bet_percent |-> 0]

\* the fields of the session at hand
Session ==
    [deck |-> deck, discarded |-> discarded, player |-> player,
     dealer |-> dealer, remaining_cash |-> remaining_cash,
     max_attained_cash |-> max_attained_cash,
     player_bet_percent |-> player_bet_percent]

Init ==
    /\ deck = NewDeck
    /\ discarded = EmptyHand
    /\ player = EmptyHand
    /\ dealer = EmptyHand
    /\ remaining_cash = initial_cash
    /\ max_attained_cash = initial_cash
    /\ player_bet_percent = 0
    /\ pc = "await_bet"
    /\ reward = 0
    /\ terminated = FALSE
    /\ rounds = 0
    /\ hits = 0
    /\ new_session = FALSE
    /\ dealt = <<>>
    /\ hand = EmptyHand
    /\ value = -1

\* variant of ReshuffleThreshold: the four suits left out
ReshuffleThresholdNoSuits == (deck_nums * Cardinality(Card)) \div 2

\* self.deck_nums * len(Card) * 4 // 2
ReshuffleThreshold == (deck_nums * Cardinality(Card) * SuitsPerDeck) \div 2

\* variant of Bankrupt: a bankroll of exactly zero goes on
BankruptBelowZero(cash) == cash < 0

\* variant of Bankrupt: the last unit of cash counts as ruin
BankruptAtOne(cash) == cash <= 1

\* if self.remaining_cash <= 0: ran out of cash, restart entire game
Bankrupt(cash) == cash <= 0

\* variant of reset_hand: the hand is returned but not emptied
reset_hand_keep(h) == h

\* Player.reset_hand: the hand the player holds afterwards (the old hand is
\* returned to the caller)
reset_hand(h) == EmptyHand

\* reset() on a session with the fields s: the fields of the session it
\* returns. A new session when the bankroll is gone; otherwise both hands go
\* to the discard pile and the shoe is recreated when less than half is left
reset_session(s) ==
    IF Bankrupt(s.remaining_cash)
    THEN NewSession
    ELSE LET recreate == get_remaining_cards(s.deck) < ReshuffleThreshold IN
         [s EXCEPT !.player = reset_hand(s.player),
                   !.dealer = reset_hand(s.dealer),
                   !.discarded = IF recreate THEN EmptyHand
                                 ELSE Plus(Plus(s.discarded, s.dealer),
                                           s.player),
                   !.deck = IF recreate THEN NewDeck ELSE s.deck,
                   !.player_bet_percent = 0]

\* a call of reset() between rounds; the caller goes on with the session it
\* returns
reset ==
    /\ pc \in {"await_bet", "over"}
    /\ rounds < MaxRounds
    /\ LET s == reset_session(Session) IN
        /\ deck' = s.deck
        /\ discarded' = s.discarded
        /\ player' = s.player
        /\ dealer' = s.dealer
        /\ remaining_cash' = s.remaining_cash
        /\ max_attained_cash' = s.max_attained_cash
        /\ player_bet_percent' = s.player_bet_percent
    /\ new_session' = Bankrupt(remaining_cash)
    /\ pc' = "await_bet"
    /\ reward' = 0
    /\ terminated' = FALSE
    /\ rounds' = rounds + 1
    /\ hits' = 0
    /\ dealt' = <<>>
    /\ UNCHANGED <<hand, value>>

\* variant of DealOrder: the player is dealt both cards first
DealOrderPlayerFirst == <<"player", "player", "dealer", "dealer">>

\* the opening deal of bet_step: player, dealer, player, dealer
DealOrder == <<"player", "dealer", "player", "dealer">>

\* Player.draw on the hands and shoe of s; order lists the cards in the order
\* they were drawn
DrawFor(s, who, c) ==
    IF who = "player"
    THEN [s EXCEPT !.deck = Take(s.deck, c), !.player = Add(s.player, c),
                   !.order = Append(s.order, c)]
    ELSE [s EXCEPT !.deck = Take(s.deck, c), !.dealer = Add(s.dealer, c),
                   !.order = Append(s.order, c)]

\* the outcomes of draws i..4 of the opening deal; ok is FALSE when a draw
\* found the shoe empty
RECURSIVE Deal(_, _)
Deal(s, i) ==
    IF i > Len(DealOrder) THEN {s}
    ELSE IF get_remaining_cards(s.deck) = 0 THEN {[s EXCEPT !.ok = FALSE]}
    ELSE UNION {Deal(DrawFor(s, DealOrder[i], c), i + 1) : c \in Drawable(s.deck)}

\* variant of OpeningOutcome: the dealer's 21 is tested before the push
OpeningOutcomeDealerFirst(p, d) ==
    IF get_hand_value(d) = 21 THEN "dealer_natural"
    ELSE IF get_hand_value(p) = 21 /\ get_hand_value(d) = 21 THEN "push"
    ELSE "play"

\* the branch bet_step takes on the hands of the opening deal
OpeningOutcome(p, d) ==
    IF get_hand_value(p) = 21 /\ get_hand_value(d) = 21 THEN "push"
    ELSE IF get_hand_value(d) = 21 THEN "dealer_natural"
    ELSE "play"

bet_step(bet_percent) ==
    /\ pc = "await_bet"
    /\ remaining_cash <= MaxCash
    /\ player_bet_percent' = bet_percent
    /\ \E s \in Deal([deck |-> deck, player |-> player, dealer |-> dealer,
                      order |-> <<>>, ok |-> TRUE], 1) :
        /\ deck' = s.deck
        /\ player' = s.player
        /\ dealer' = s.dealer
        /\ dealt' = s.order
        /\ IF ~s.ok
           THEN /\ pc' = "exhausted"
                /\ UNCHANGED <<remaining_cash, reward, terminated>>
           ELSE IF OpeningOutcome(s.player, s.dealer) = "push"
           THEN /\ reward' = 0
                /\ terminated' = TRUE
                /\ pc' = "over"
                /\ UNCHANGED remaining_cash
           ELSE IF OpeningOutcome(s.player, s.dealer) = "dealer_natural"
           THEN /\ terminated' = TRUE
                /\ pc' = "over"
                /\ remaining_cash' =
                       remaining_cash - loss_cash(remaining_cash, bet_percent)
                /\ reward' = loss_reward(remaining_cash, bet_percent,
                                         max_attained_cash)
           ELSE /\ reward' = 0
                /\ terminated' = FALSE
                /\ pc' = "player"
                /\ UNCHANGED remaining_cash
    /\ new_session' = FALSE
    /\ UNCHANGED <<discarded, max_attained_cash, rounds, hits, hand, value>>

\* card_step(take_card=True)
card_step_hit ==
    /\ pc = "player"
    /\ hits < MaxHits
    /\ hits' = hits + 1
    /\ IF get_remaining_cards(deck) = 0
       THEN /\ pc' = "exhausted"
            /\ UNCHANGED <<deck, player, remaining_cash, reward, terminated>>
       ELSE \E c \in Drawable(deck) :
            /\ deck' = Take(deck, c)
            /\ player' = Add(player, c)
            /\ IF get_hand_value(Add(player, c)) > 21
               THEN /\ terminated' = TRUE
                    /\ pc' = "over"
                    /\ remaining_cash' =
                           remaining_cash
                             - loss_cash(remaining_cash, player_bet_percent)
                    /\ reward' = loss_reward(remaining_cash, player_bet_percent,
                                             max_attained_cash)
               ELSE /\ terminated' = FALSE
                    /\ reward' = 0
                    /\ pc' = "player"
                    /\ UNCHANGED remaining_cash
    /\ dealt' = <<>>
    /\ new_session' = FALSE
    /\ UNCHANGED <<discarded, dealer, max_attained_cash, player_bet_percent,
                   rounds, hand, value>>

\* player_score == 21 and len(self.player.hand) == 2
IsNatural(h) == get_hand_value(h) = 21 /\ HandLen(h) = 2

\* card_step(take_card=False): a natural is paid at once, otherwise the
\* dealer's turn starts
card_step_stand ==
    /\ pc = "player"
    /\ IF IsNatural(player)
       THEN /\ remaining_cash' =
                  remaining_cash
                    + natural_win_cash(remaining_cash, player_bet_percent)
            /\ max_attained_cash' =
                  Max(max_attained_cash,
                      remaining_cash
                        + natural_win_cash(remaining_cash, player_bet_percent))
            /\ reward' = natural_win_cash(remaining_cash, player_bet_percent)
            /\ terminated' = TRUE
            /\ pc' = "over"
       ELSE /\ pc' = "dealer"
            /\ UNCHANGED <<remaining_cash, max_attained_cash, reward, terminated>>
    /\ dealt' = <<>>
    /\ new_session' = FALSE
    /\ UNCHANGED <<deck, discarded, player, dealer, player_bet_percent, rounds,
                   hits, hand, value>>

\* the dealer draws below DealerStand (house rules)
DealerStand == 17

\* variant of DealerMustDraw: the dealer also draws at DealerStand
DealerMustDrawAtStand(h) == get_hand_value(h) <= DealerStand

\* while self.dealer.get_hand_value() < 17: self.dealer.draw(self.deck)
DealerMustDraw(h) == get_hand_value(h) < DealerStand

\* one iteration of the dealer's loop in card_step(take_card=False)
dealer_draw ==
    /\ pc = "dealer"
    /\ DealerMustDraw(dealer)
    /\ IF get_remaining_cards(deck) = 0
       THEN /\ pc' = "exhausted"
            /\ UNCHANGED <<deck, dealer>>
       ELSE \E c \in Drawable(deck) :
            /\ deck' = Take(deck, c)
            /\ dealer' = Add(dealer, c)
            /\ pc' = "dealer"
    /\ dealt' = <<>>
    /\ new_session' = FALSE
    /\ UNCHANGED <<discarded, player, remaining_cash, max_attained_cash,
                   player_bet_percent, reward, terminated, rounds, hits, hand,
                   value>>

\* variant of Compare: equal totals count for the dealer
CompareTieLoses(dealer_score, player_score) ==
    IF dealer_score > 21 THEN "dealer_bust"
    ELSE IF dealer_score >= player_score THEN "dealer_higher"
    ELSE "player_higher"

\* the branch card_step takes on the two totals after the dealer's loop
Compare(dealer_score, player_score) ==
    IF dealer_score > 21 THEN "dealer_bust"
    ELSE IF dealer_score > player_score THEN "dealer_higher"
    ELSE IF dealer_score = player_score THEN "push"
    ELSE "player_higher"

\* the comparison of the totals once the dealer's loop has ended
dealer_resolve ==
    /\ pc = "dealer"
    /\ ~DealerMustDraw(dealer)
    /\ LET outcome == Compare(get_hand_value(dealer), get_hand_value(player))
           win == win_cash(remaining_cash, player_bet_percent)
       IN  IF outcome \in {"dealer_bust", "player_higher"}
           THEN /\ remaining_cash' = remaining_cash + win
                /\ max_attained_cash' = Max(max_attained_cash, remaining_cash + win)
                /\ reward' = win
           ELSE IF outcome = "dealer_higher"
           THEN /\ remaining_cash' =
                      remaining_cash
                        - loss_cash(remaining_cash, player_bet_percent)
                /\ reward' = loss_reward(remaining_cash, player_bet_percent,
                                         max_attained_cash)
                /\ UNCHANGED max_attained_cash
           ELSE /\ reward' = 0
                /\ UNCHANGED <<remaining_cash, max_attained_cash>>
    /\ terminated' = TRUE
    /\ pc' = "over"
    /\ dealt' = <<>>
    /\ new_session' = FALSE
    /\ UNCHANGED <<deck, discarded, player, dealer, player_bet_percent, rounds,
                   hits, hand, value>>

\* get_state(): builds a GameState from the fields and assigns none of them
get_state ==
    /\ pc \in {"await_bet", "player", "over"}
    /\ UNCHANGED vars

Next ==
    \/ reset
    \/ get_state
    \/ \E bet_percent \in Bets : bet_step(bet_percent)
    \/ card_step_hit
    \/ card_step_stand
    \/ dealer_draw
    \/ dealer_resolve

Spec == Init /\ [][Next]_vars

----------------------------------------------------------------------------
(* Hand valuation on its own: hands built by Player.draw from any ranks *)

\* Player.draw: self.hand[card] += 1
hand_draw(c) ==
    /\ TotalCards(hand) < MaxHandCards
    /\ hand[c] < SuitsPerDeck * deck_nums
    /\ hand' = Add(hand, c)
    /\ value' = -1
    /\ UNCHANGED <<deck, discarded, player, dealer, remaining_cash,
                   max_attained_cash, player_bet_percent, pc, reward,
                   terminated, rounds, hits, new_session, dealt>>

\* a call of Player.get_hand_value on the hand
hand_evaluate ==
    /\ value = -1
    /\ value' = get_hand_value(hand)
    /\ UNCHANGED <<deck, discarded, player, dealer, remaining_cash,
                   max_attained_cash, player_bet_percent, pc, reward,
                   terminated, rounds, hits, new_session, dealt, hand>>

NextHand == (\E c \in Card : hand_draw(c)) \/ hand_evaluate

SpecHand == Init /\ [][NextHand]_vars

----------------------------------------------------------------------------
(* Calls out of order and bets out of range: bet_step and card_step test
   neither the position in the round nor bet_percent, so such a call runs
   the same statements as any other.  The first rounds of a new session,
   with every call a caller can make; the calls out of order or out of range
   end the behaviour at their own pc. *)

\* resets explored together with the calls out of order
MaxResets == 1

\* bet_percent above 1, in units of 1 / BetDen
InvalidBets == {BetDen + 1}

\* the statements of bet_step on the session at hand, leaving pc at next when
\* every draw was served
bet_step_body(bet_percent, next) ==
    /\ player_bet_percent' = bet_percent
    /\ \E s \in Deal([deck |-> deck, player |-> player, dealer |-> dealer,
                      order |-> <<>>, ok |-> TRUE], 1) :
        /\ deck' = s.deck
        /\ player' = s.player
        /\ dealer' = s.dealer
        /\ dealt' = s.order
        /\ pc' = IF s.ok THEN next ELSE "exhausted"
        /\ IF ~s.ok
           THEN UNCHANGED <<remaining_cash, reward, terminated>>
           ELSE IF OpeningOutcome(s.player, s.dealer) = "push"
           THEN /\ reward' = 0
                /\ terminated' = TRUE
                /\ UNCHANGED remaining_cash
           ELSE IF OpeningOutcome(s.player, s.dealer) = "dealer_natural"
           THEN /\ terminated' = TRUE
                /\ remaining_cash' =
                       remaining_cash - loss_cash(remaining_cash, bet_percent)
                /\ reward' = loss_reward(remaining_cash, bet_percent,
                                         max_attained_cash)
           ELSE /\ reward' = 0
                /\ terminated' = FALSE
                /\ UNCHANGED remaining_cash
    /\ new_session' = FALSE
    /\ UNCHANGED <<discarded, max_attained_cash, rounds, hits, hand, value>>

\* bet_step(bet_percent) after the round has terminated, without a reset
bet_step_after_end(bet_percent) ==
    /\ pc = "over"
    /\ bet_step_body(bet_percent, "out_of_order")

\* bet_step(bet_percent) at the start of a round with bet_percent above 1
bet_step_out_of_range(bet_percent) ==
    /\ pc = "await_bet"
    /\ bet_step_body(bet_percent, "out_of_range")

\* card_step(take_card=True) before bet_step, or after the round has
\* terminated without a reset
card_step_out_of_order ==
    /\ pc \in {"await_bet", "over"}
    /\ IF get_remaining_cards(deck) = 0
       THEN /\ pc' = "exhausted"
            /\ UNCHANGED <<deck, player, remaining_cash, reward, terminated>>
       ELSE \E c \in Drawable(deck) :
            /\ deck' = Take(deck, c)
            /\ player' = Add(player, c)
            /\ pc' = "out_of_order"
            /\ IF get_hand_value(Add(player, c)) > 21
               THEN /\ terminated' = TRUE
                    /\ remaining_cash' =
                           remaining_cash
                             - loss_cash(remaining_cash, player_bet_percent)
                    /\ reward' = loss_reward(remaining_cash, player_bet_percent,
                                             max_attained_cash)
               ELSE /\ terminated' = FALSE
                    /\ reward' = 0
                    /\ UNCHANGED remaining_cash
    /\ dealt' = <<>>
    /\ new_session' = FALSE
    /\ UNCHANGED <<discarded, dealer, max_attained_cash, player_bet_percent,
                   rounds, hits, hand, value>>

\* reset() between the first rounds
reset_early ==
    /\ rounds < MaxResets
    /\ reset

NextAnyCall ==
    \/ reset_early
    \/ \E bet_percent \in Bets : bet_step(bet_percent)
    \/ card_step_hit
    \/ card_step_stand
    \/ dealer_draw
    \/ dealer_resolve
    \/ \E bet_percent \in Bets : bet_step_after_end(bet_percent)
    \/ \E bet_percent \in InvalidBets : bet_step_out_of_range(bet_percent)
    \/ card_step_out_of_order

SpecAnyCall == Init /\ [][NextAnyCall]_vars

----------------------------------------------------------------------------
(* Properties *)

\* the total of a hand with every ace counted as 1
HardTotal(h) ==
    h[ace] + 2 * h[2] + 3 * h[3] + 4 * h[4] + 5 * h[5] + 6 * h[6] + 7 * h[7]
      + 8 * h[8] + 9 * h[9] + 10 * (h[10] + h[jack] + h[queen] + h[king])

\* a hand of exactly two cards: two aces, or an ace and a ten-valued card
TwoCardNatural(h) ==
    /\ TotalCards(h) = 2
    /\ \/ h[ace] = 2
       \/ h[ace] = 1 /\ h[10] + h[jack] + h[queen] + h[king] = 1

\* max(floor(cash * bet), 1) for a bet of bet/BetDen
ExpectedLoss(cash, bet) ==
    IF (cash * bet) \div BetDen > 1 THEN (cash * bet) \div BetDen ELSE 1

\* the transitions in which card_step(take_card=False) is called
StandCalled == pc = "player" /\ pc' \in {"over", "dealer"} /\ player' = player

\* the transitions in which bet_step deals the opening four cards
OpeningDealt == pc = "await_bet" /\ pc' \in {"over", "player"}

\* the transitions in which the dealer draws a card during the dealer's turn
DealerDrew == pc = "dealer" /\ pc' = "dealer"

\* the transitions in which the totals are compared after the dealer's turn
TotalsCompared == pc = "dealer" /\ pc' = "over"

\* C1: on a stand the doubled payout floor(remaining_cash * bet_percent * 2)
\* is applied if and only if the player's hand is exactly two cards totalling
\* 21; any other hand is resolved by the dealer's turn.
C1_DoubledIffTwoCardNatural ==
    [][StandCalled =>
        LET win == (remaining_cash * player_bet_percent * 2) \div BetDen
            doubled == /\ pc' = "over"
                       /\ remaining_cash' = remaining_cash + win
                       /\ reward' = win
        IN  /\ doubled <=> (TotalCards(player) = 2 /\ get_hand_value(player) = 21)
            /\ ~doubled => pc' = "dealer"]_vars

\* C2: get_hand_value is 21 for two aces and for an ace with a ten-valued
\* card, and otherwise the face-value sum with aces as 1 plus 10 for each ace
\* whose promotion keeps the total at most 21; {ace,ace} = 21, {ace,king} = 21,
\* {ace,ace,9} = 21 and {10,10,5} = 25.
C2_HandValue ==
    value # -1 =>
        /\ value =
             IF TwoCardNatural(hand) THEN 21
             ELSE HardTotal(hand)
                    + 10 * Cardinality({k \in 1..hand[ace] :
                                          HardTotal(hand) + 10 * k <= 21})
        /\ hand = [EmptyHand EXCEPT ![ace] = 2] => value = 21
        /\ hand = [EmptyHand EXCEPT ![ace] = 1, ![king] = 1] => value = 21
        /\ hand = [EmptyHand EXCEPT ![ace] = 2, ![9] = 1] => value = 21
        /\ hand = [EmptyHand EXCEPT ![10] = 2, ![5] = 1] => value = 25

C2_Witness ==
    /\ value = 21
    /\ hand = [EmptyHand EXCEPT ![ace] = 2, ![9] = 1]

\* C3: for a hand that is not a two-card natural, get_hand_value is the
\* largest total not above 21 over all ways of counting each ace as 1 or 11,
\* and the total with every ace as 1 when no such total exists.
C3_BestLegalTotal ==
    (value # -1 /\ ~TwoCardNatural(hand)) =>
        LET totals == {HardTotal(hand) + 10 * k : k \in 0..hand[ace]}
            legal == {t \in totals : t <= 21}
        IN  IF legal = {} THEN value = HardTotal(hand)
            ELSE value \in legal /\ \A t \in legal : t <= value

C3_Witness ==
    /\ hand[ace] = 3
    /\ TotalCards(hand) = 4
    /\ value = HardTotal(hand) + 10
    /\ value = 21

\* the transitions in which the round is lost: a dealer natural in bet_step,
\* a bust on a hit, a higher dealer total on the comparison
LossEvent ==
    \/ /\ OpeningDealt
       /\ get_hand_value(dealer') = 21
       /\ get_hand_value(player') # 21
    \/ /\ pc = "player"
       /\ player' # player
       /\ get_hand_value(player') > 21
    \/ /\ TotalsCompared
       /\ get_hand_value(dealer) <= 21
       /\ get_hand_value(dealer) > get_hand_value(player)

C5_OpeningPush ==
    [][(/\ OpeningDealt
        /\ get_hand_value(player') = 21
        /\ get_hand_value(dealer') = 21) =>
           /\ terminated'
           /\ reward' = 0
           /\ remaining_cash' = remaining_cash
           /\ max_attained_cash' = max_attained_cash]_vars

C5_Witness ==
    /\ pc = "over"
    /\ hits = 0
    /\ TotalCards(player) = 2
    /\ TotalCards(dealer) = 2
    /\ get_hand_value(player) = 21
    /\ get_hand_value(dealer) = 21
    /\ terminated
    /\ reward = 0
    /\ player_bet_percent = BetDen

\* bet_step on an opening deal that is no push and no dealer 21
C6_OtherOpening ==
    (/\ OpeningDealt
     /\ get_hand_value(dealer') # 21) =>
        /\ ~terminated'
        /\ reward' = 0
        /\ remaining_cash' = remaining_cash

C7_StandResolution ==
    [][TotalsCompared =>
        LET d == get_hand_value(dealer)
            p == get_hand_value(player)
            win == (remaining_cash * player_bet_percent) \div BetDen
            loss == ExpectedLoss(remaining_cash, player_bet_percent)
        IN  /\ terminated'
            /\ (d > 21 \/ d < p) =>
                  remaining_cash' = remaining_cash + win /\ reward' = win
            /\ (d = p) =>
                  remaining_cash' = remaining_cash /\ reward' = 0
            /\ (d <= 21 /\ d > p) =>
                  /\ remaining_cash' = remaining_cash - loss
                  /\ reward' = IF remaining_cash' > 0 THEN 0 - loss
                               ELSE 0 - max_attained_cash]_vars

\* the dealer drew and went bust, and the player was paid
C7_Witness ==
    /\ pc = "over"
    /\ TotalCards(dealer) >= 3
    /\ get_hand_value(dealer) > 21
    /\ get_hand_value(player) <= 21
    /\ reward > 0
    /\ reward = remaining_cash - initial_cash

\* C8: in the dealer's turn the dealer draws only below 17 and the totals
\* are compared at 17 or more; the turn always ends: a card is there whenever
\* the dealer must draw, and every draw raises the total with aces as 1,
\* which is below 17 at a draw, so the comparison comes within 17 draws.
C8_DealerPolicy ==
    /\ [][DealerDrew =>
            /\ get_hand_value(dealer) < 17
            /\ HardTotal(dealer) < 17
            /\ HardTotal(dealer') > HardTotal(dealer)]_vars
    /\ [][TotalsCompared => get_hand_value(dealer) >= 17]_vars
    /\ [](pc = "dealer" =>
             \/ get_hand_value(dealer) >= 17
             \/ get_remaining_cards(deck) >= 1 /\ HardTotal(dealer) < 17)
    /\ [][pc = "dealer" => pc' \in {"dealer", "over"}]_vars

\* the dealer drew up to a total between 17 and 21
C8_Witness ==
    /\ pc = "over"
    /\ TotalCards(dealer) >= 4
    /\ get_hand_value(dealer) >= 17
    /\ get_hand_value(dealer) <= 21

\* C9 as claimed: every card the dealer draws strictly increases the
\* dealer's hand value.
C9_DealerValueIncreases ==
    [][DealerDrew => get_hand_value(dealer') > get_hand_value(dealer)]_vars

\* C9 as amended: every card the dealer draws strictly increases the total
\* with aces as 1; the hand value strictly increases too, unless the hand was
\* soft and the card takes its ace from 11 back to 1, and then the value is
\* the new total with aces as 1 and does not increase.  The hand does not
\* change once the dealer has stopped.
C9_DealerValueSoftAware ==
    /\ [][DealerDrew =>
            /\ HardTotal(dealer') > HardTotal(dealer)
            /\ \/ get_hand_value(dealer') > get_hand_value(dealer)
               \/ /\ get_hand_value(dealer) = HardTotal(dealer) + 10
                  /\ get_hand_value(dealer') = HardTotal(dealer')
                  /\ get_hand_value(dealer') <= get_hand_value(dealer)]_vars
    /\ [][TotalsCompared => dealer' = dealer]_vars

\* the dealer held a soft total below 17 and the next card left the value
\* where it was or below
C9_Witness ==
    /\ pc \in {"dealer", "over"}
    /\ TotalCards(dealer) >= 3
    /\ \E c \in Card :
        /\ dealer[c] > 0
        /\ get_hand_value(Take(dealer, c)) = HardTotal(Take(dealer, c)) + 10
        /\ get_hand_value(Take(dealer, c)) < 17
        /\ get_hand_value(dealer) <= get_hand_value(Take(dealer, c))

ResetCalled == pc \in {"await_bet", "over"} /\ rounds' = rounds + 1

\* C11: reset() on a session with remaining_cash > 0 empties both hands and
\* clears the bet; when at least half of the deck_nums * 52 cards were left in
\* the shoe, the discard pile gains the cards of both hands and the shoe keeps
\* its counts; when fewer were left, the discard pile is empty and the shoe is
\* a full set of deck_nums decks.
C11_ResetReshuffle ==
    [][(ResetCalled /\ remaining_cash > 0) =>
          /\ player' = EmptyHand
          /\ dealer' = EmptyHand
          /\ player_bet_percent' = 0
          /\ IF 2 * get_remaining_cards(deck) >= deck_nums * 52
             THEN /\ discarded' =
                       [c \in Card |-> discarded[c] + player[c] + dealer[c]]
                  /\ deck' = deck
             ELSE /\ discarded' = EmptyHand
                  /\ deck' = [c \in Card |-> 4 * deck_nums]]_vars

\* a solvent session after a reset that found less than half of the shoe
\* left: rounds were played (the bankroll moved), yet nothing is discarded
C11_Witness ==
    /\ pc = "await_bet"
    /\ ~new_session
    /\ remaining_cash # initial_cash
    /\ remaining_cash > 0
    /\ discarded = EmptyHand
    /\ get_remaining_cards(deck) = deck_nums * 52

C13_ResetIdempotent ==
    [](LET once == reset_session(Session) IN reset_session(once) = once)

\* the player's turn with less than half of the shoe left: a first reset()
\* drains the hands and recreates the shoe, a second one changes nothing
C13_Witness ==
    /\ pc = "player"
    /\ TotalCards(player) >= 2
    /\ TotalCards(discarded) >= 4
    /\ 2 * get_remaining_cards(deck) < deck_nums * 52
    /\ reset_session(Session) # Session
    /\ reset_session(Session).player = EmptyHand
    /\ reset_session(Session).discarded = EmptyHand
    /\ get_remaining_cards(reset_session(Session).deck) = deck_nums * 52
    /\ reset_session(reset_session(Session)) = reset_session(Session)

\* C14: a card_step before bet_step, and a bet_step or card_step after the
\* round has terminated without a reset, leave the hands, the shoe, the
\* discard pile, the bet, remaining_cash and max_attained_cash unchanged.
C14_OutOfOrderCallRejected ==
    [][pc' = "out_of_order" =>
          UNCHANGED <<player, dealer, deck, discarded, player_bet_percent,
                      remaining_cash, max_attained_cash>>]_vars

\* C15: bet_step with bet_percent outside [0, 1] records no bet, draws no
\* card and leaves remaining_cash unchanged.
C15_InvalidBetRejected ==
    [][pc' = "out_of_range" =>
          UNCHANGED <<player_bet_percent, deck, player, dealer,
                      remaining_cash>>]_vars

\* C16: a step that returns terminated = false (a bet_step that starts the
\* player's turn, a hit that does not bust) returns reward 0 and leaves
\* remaining_cash and max_attained_cash unchanged; remaining_cash changes only
\* in the one step of a round that returns terminated = true, after which
\* only reset() follows, or in a reset() of a session with nothing left;
\* reset() on a session with remaining_cash > 0 leaves remaining_cash
\* unchanged, and get_state() changes no field at all.
C16_SingleResolution ==
    [][/\ (pc \in {"await_bet", "player"} /\ pc' = "player") =>
            /\ reward' = 0
            /\ ~terminated'
            /\ UNCHANGED <<remaining_cash, max_attained_cash>>
       /\ remaining_cash' # remaining_cash =>
            \/ /\ pc \in {"await_bet", "player", "dealer"}
               /\ pc' = "over"
               /\ terminated'
            \/ ResetCalled /\ remaining_cash <= 0
       /\ pc = "over" => ResetCalled
       /\ (ResetCalled /\ remaining_cash > 0) => UNCHANGED remaining_cash]_vars

\* a round with a bet_step and a hit that returned terminated = false, won on
\* the stand after the dealer drew
C16_Witness ==
    /\ pc = "over"
    /\ terminated
    /\ reward > 0
    /\ hits >= 1
    /\ TotalCards(dealer) >= 3
    /\ max_attained_cash = remaining_cash

\* C17: within one session max_attained_cash never decreases; a step that ends
\* the round without a loss leaves it at the larger of its old value and the
\* new remaining_cash; and in every state max_attained_cash >= remaining_cash
\* and max_attained_cash >= initial_cash.
C17_MaxAttainedCash ==
    /\ [](max_attained_cash >= remaining_cash
           /\ max_attained_cash >= initial_cash)
    /\ [][~new_session' => max_attained_cash' >= max_attained_cash]_vars
    /\ [][(pc # "over" /\ pc' = "over" /\ remaining_cash' >= remaining_cash) =>
            max_attained_cash' =
               IF remaining_cash' > max_attained_cash THEN remaining_cash'
               ELSE max_attained_cash]_vars

\* a session that has been above initial_cash and has lost since
C17_Witness ==
    /\ max_attained_cash > initial_cash
    /\ remaining_cash < max_attained_cash
    /\ remaining_cash > 0
    /\ pc = "over"
    /\ reward < 0

\* C18: for every rank, the cards in the shoe, in the discard pile and in the
\* two hands add up to 4 * deck_nums in every reachable state; hence the shoe
\* and the discard pile together never hold more than deck_nums * 52 cards.
C18_CardConservation ==
    /\ \A c \in Card :
          deck[c] + discarded[c] + player[c] + dealer[c] = 4 * deck_nums
    /\ get_remaining_cards(deck) + TotalCards(discarded) <= deck_nums * 52

\* a later round under way: cards in the shoe, in the discard pile and in
\* both hands, the dealer having drawn
C18_Witness ==
    /\ pc = "dealer"
    /\ TotalCards(discarded) >= 4
    /\ TotalCards(player) >= 3
    /\ TotalCards(dealer) >= 3
    /\ get_remaining_cards(deck) > 0

\* the cards at positions i and j of the sequence d, as a hand
HandOf(d, i, j) ==
    [c \in Card |-> (IF d[i] = c THEN 1 ELSE 0) + (IF d[j] = c THEN 1 ELSE 0)]

\* C19: bet_step records the bet and draws exactly four cards from the shoe:
\* the player holds the first and the third, the dealer the second and the
\* fourth; the push and dealer-natural tests see the hands of two cards each
\* (the round ends there exactly when the dealer's two cards make 21), and a
\* loss taken there is computed with the bet just recorded.
C19_OpeningDeal ==
    [][OpeningDealt =>
          /\ player_bet_percent' \in Bets
          /\ Len(dealt') = 4
          /\ player' = HandOf(dealt', 1, 3)
          /\ dealer' = HandOf(dealt', 2, 4)
          /\ \A c \in Card : deck'[c] = deck[c] - player'[c] - dealer'[c]
          /\ terminated' <=> get_hand_value(HandOf(dealt', 2, 4)) = 21
          /\ pc' = "over" <=> terminated'
          /\ (terminated' /\ get_hand_value(HandOf(dealt', 1, 3)) # 21) =>
                remaining_cash' =
                   remaining_cash
                     - ExpectedLoss(remaining_cash, player_bet_percent')
          /\ (~terminated' \/ get_hand_value(HandOf(dealt', 1, 3)) = 21) =>
                /\ reward' = 0
                /\ UNCHANGED remaining_cash]_vars

\* an opening deal that alternated between two ranks: both aces to the
\* player, both kings to the dealer
C19_Witness ==
    /\ pc = "player"
    /\ dealt = <<ace, king, ace, king>>
    /\ player = HandOf(dealt, 1, 3)
    /\ dealer = HandOf(dealt, 2, 4)
    /\ player_bet_percent > 0

\* C20: with initial_cash >= 1 and bets between 0 and 1, remaining_cash is
\* never negative and is positive whenever a round can start or is under
\* way; every loss takes at least 1 and at most what is left; and the reset()
\* that follows a round ended at remaining_cash = 0 returns a new session.
C20_BankrollNeverNegative ==
    /\ [](/\ initial_cash >= 1
          /\ remaining_cash >= 0
          /\ pc \in {"await_bet", "player", "dealer"} => remaining_cash > 0)
    /\ [][(LossEvent \/ remaining_cash' < remaining_cash) =>
            /\ remaining_cash - remaining_cash' >= 1
            /\ remaining_cash - remaining_cash' <= remaining_cash]_vars
    /\ [][(pc = "over" /\ remaining_cash = 0) =>
            /\ ResetCalled
            /\ new_session'
            /\ remaining_cash' = initial_cash]_vars

\* a round lost with everything staked
C20_Witness ==
    /\ pc = "over"
    /\ terminated
    /\ remaining_cash = 0
    /\ reward = -max_attained_cash
    /\ player_bet_percent = BetDen

====
